---- MODULE Spec2Model ----
(***************************************************************************)
(* Orbit-camera input controller of capital-cove: class Input and the      *)
(* registry part of class SceneSetup (src/src/core/SceneSetup.js).         *)
(*                                                                         *)
(* Numbers.  The code computes in doubles; the model computes in exact     *)
(* fixed point.  One model unit is 1/Unit of the code's unit (radians for  *)
(* the angle, world units for radius, height and the look-at point), with  *)
(* Unit = 1000 * 4^MaxUpdates, so that rotateSpeed = 0.004, the speeds of  *)
(* 0.5 and every lerp by a factor k/4 taken by at most MaxUpdates frames   *)
(* are exact.  Pointer coordinates are whole pixels.                       *)
(***************************************************************************)
EXTENDS Integers, Sequences, FiniteSets, TLC

\* ------------------------------------------------------------------ bounds
MaxUpdates == 2
MaxDragPx == 4
MaxNodes == 6
MaxHits == 2
MaxRegistered == 1
WalkFuel == 8
MaxTurns == 2

\* --------------------------------------------------------------- constants
RECURSIVE Pow4(_)
Pow4(n) == IF n = 0 THEN 1 ELSE 4 * Pow4(n - 1)

Milli == Pow4(MaxUpdates)
Unit == 1000 * Milli

InitRadius == 400 * Unit
MinRadius == 150 * Unit
MaxRadius == 600 * Unit
InitAngle == 780 * Milli
InitHeight == 220 * Unit
MinHeight == 50 * Unit
MaxHeight == 500 * Unit
DampingFactor == 5
RotateSpeed == 4 * Milli
ZoomSpeed == 500 * Milli
PanSpeed == 500 * Milli
InitLook == <<0, 10 * Unit, 0>>
ClickThreshold == 5
MaxWalkDepth == 5
MaxDtMs == 100
InnerWidth == 10
InnerHeight == 2000
Camera == 1
PiScaled == (3141593 * Milli) \div 1000

Null == 0
Nodes == 1 .. MaxNodes

\* ------------------------------------------------------------- input sets
\* Pointer-down and pointer-up positions: 3 px, 5 px and 2 px apart.
Points == {<<0, 900>>, <<3, 900>>, <<5, 900>>}
\* Pointer-move positions: 900 px above and below them.
MovePoints == {<<0, 0>>, <<0, 1800>>}
Tags == {"CANVAS", "DIV"}
Buttons == {0, 1, 2}
DownEvents ==
    {[clientX |-> p[1], clientY |-> p[2], tagName |-> t, button |-> b] :
        p \in Points, t \in Tags, b \in Buttons}
\* onMouseUp and onMouseMove do not read the button, onMouseMove not the target.
UpEvents ==
    {[clientX |-> p[1], clientY |-> p[2], tagName |-> t, button |-> 0] :
        p \in Points, t \in Tags}
MoveEvents ==
    {[clientX |-> p[1], clientY |-> p[2], tagName |-> "CANVAS", button |-> 0] :
        p \in MovePoints}
WheelEvents == {[deltaY |-> d, tagName |-> t] : d \in {900, -900}, t \in Tags}
LookTargets == {<<0, 10 * Unit, 0>>, <<100 * Unit, 10 * Unit, -50 * Unit>>}
ElapsedMs == {0, 50, 5000}
Callbacks == {1}

\* ------------------------------------------------------------ small helpers
Max(a, b) == IF a >= b THEN a ELSE b
Min(a, b) == IF a <= b THEN a ELSE b

\* Math.max(lo, Math.min(hi, v))
Clamp(lo, hi, v) == Max(lo, Min(hi, v))

\* ------------------------------------------------- Input: constructor state
InputNew ==
    [ enabled |-> TRUE,
      locked |-> FALSE,
      targetRadius |-> InitRadius,
      currentRadius |-> InitRadius,
      targetAngle |-> InitAngle,
      currentAngle |-> InitAngle,
      targetHeight |-> InitHeight,
      currentHeight |-> InitHeight,
      targetLook |-> InitLook,
      currentLook |-> InitLook,
      isDragging |-> FALSE,
      previousMousePosition |-> <<0, 0>>,
      dragStartPosition |-> <<0, 0>>,
      mouse |-> <<0, 0>>,
      onObjectClicked |-> Null ]

\* --------------------------------------------------------- Input: mutators
\* Mutant: disabling leaves a drag in progress.
SetEnabledKeepsDrag(s, isEnabled) == [s EXCEPT !.enabled = isEnabled]

SetEnabled(s, isEnabled) ==
    [s EXCEPT !.enabled = isEnabled,
              !.isDragging = IF ~isEnabled THEN FALSE ELSE s.isDragging]

\* Mutant: the argument is ignored and the lock is flipped.
SetLockedToggles(s, isLocked) ==
    [s EXCEPT !.locked = ~s.locked, !.isDragging = FALSE]

SetLocked(s, isLocked) ==
    [s EXCEPT !.locked = isLocked, !.isDragging = FALSE]

\* Mutant: the current look-at point snaps to the new target.
SetLookTargetSnaps(s, vec3) ==
    [s EXCEPT !.targetLook = vec3, !.currentLook = vec3]

SetLookTarget(s, vec3) == [s EXCEPT !.targetLook = vec3]

\* A missing argument (null, undefined) is the empty tuple.
MoveCameraTo(s, vec3) == IF vec3 = << >> THEN s ELSE SetLookTarget(s, vec3)

IsEventOnCanvas(event) == event.tagName = "CANVAS"

\* --------------------------------------------------- Input: pointer handlers
\* Mutant: the button is not looked at.
OnMouseDownAnyButton(s, event) ==
    IF ~s.enabled \/ s.locked THEN s
    ELSE IF ~IsEventOnCanvas(event) THEN s
    ELSE [s EXCEPT !.isDragging = TRUE,
                   !.previousMousePosition = <<event.clientX, event.clientY>>,
                   !.dragStartPosition = <<event.clientX, event.clientY>>]

OnMouseDown(s, event) ==
    IF ~s.enabled \/ s.locked THEN s
    ELSE IF ~IsEventOnCanvas(event) THEN s
    ELSE IF event.button # 0 /\ event.button # 2 THEN s
    ELSE [s EXCEPT !.isDragging = TRUE,
                   !.previousMousePosition = <<event.clientX, event.clientY>>,
                   !.dragStartPosition = <<event.clientX, event.clientY>>]

\* this.mouse, kept as the numerators over innerWidth and innerHeight:
\* mouse.x = (2*clientX - innerWidth) / innerWidth,
\* mouse.y = (innerHeight - 2*clientY) / innerHeight.
ToNdc(event) ==
    <<2 * event.clientX - InnerWidth, InnerHeight - 2 * event.clientY>>

\* Mutant: the movement is measured from the down position each time.
OnMouseMoveFromStart(s, event) ==
    LET m == [s EXCEPT !.mouse = ToNdc(event)]
        dx == event.clientX - s.dragStartPosition[1]
        dy == event.clientY - s.dragStartPosition[2]
    IN  IF ~s.enabled \/ ~s.isDragging \/ s.locked THEN m
        ELSE [m EXCEPT
                !.targetAngle = s.targetAngle + dx * RotateSpeed,
                !.targetHeight =
                    Clamp(MinHeight, MaxHeight, s.targetHeight + dy * PanSpeed),
                !.previousMousePosition = <<event.clientX, event.clientY>>]

OnMouseMove(s, event) ==
    LET m == [s EXCEPT !.mouse = ToNdc(event)]
        dx == event.clientX - s.previousMousePosition[1]
        dy == event.clientY - s.previousMousePosition[2]
    IN  IF ~s.enabled \/ ~s.isDragging \/ s.locked THEN m
        ELSE [m EXCEPT
                !.targetAngle = s.targetAngle + dx * RotateSpeed,
                !.targetHeight =
                    Clamp(MinHeight, MaxHeight, s.targetHeight + dy * PanSpeed),
                !.previousMousePosition = <<event.clientX, event.clientY>>]

\* dist < 5 with dist = sqrt(dx^2 + dy^2): on whole pixels the square root is
\* below 5 exactly when the sum of squares is below 25.
DistBelowThreshold(event, start) ==
    LET dx == event.clientX - start[1]
        dy == event.clientY - start[2]
    IN  dx * dx + dy * dy < ClickThreshold * ClickThreshold

\* Mutant: the locked branch is missing.
OnMouseUpIgnoresLock(s, event) ==
    IF ~s.enabled THEN [inp |-> s, click |-> FALSE]
    ELSE IF ~IsEventOnCanvas(event)
        THEN [inp |-> [s EXCEPT !.isDragging = FALSE], click |-> FALSE]
    ELSE [inp |-> [s EXCEPT !.isDragging = FALSE],
          click |-> DistBelowThreshold(event, s.dragStartPosition)]

\* Mutant: the distance is taken from the last drag position.
OnMouseUpFromLast(s, event) ==
    IF ~s.enabled THEN [inp |-> s, click |-> FALSE]
    ELSE IF s.locked
        THEN [inp |-> [s EXCEPT !.isDragging = FALSE], click |-> FALSE]
    ELSE IF ~IsEventOnCanvas(event)
        THEN [inp |-> [s EXCEPT !.isDragging = FALSE], click |-> FALSE]
    ELSE [inp |-> [s EXCEPT !.isDragging = FALSE],
          click |-> DistBelowThreshold(event, s.previousMousePosition)]

\* Mutant: the target of the event is not looked at.
OnMouseUpAnyTarget(s, event) ==
    IF ~s.enabled THEN [inp |-> s, click |-> FALSE]
    ELSE IF s.locked
        THEN [inp |-> [s EXCEPT !.isDragging = FALSE], click |-> FALSE]
    ELSE [inp |-> [s EXCEPT !.isDragging = FALSE],
          click |-> DistBelowThreshold(event, s.dragStartPosition)]

\* The state onMouseUp leaves, and whether it calls processClick.
OnMouseUp(s, event) ==
    IF ~s.enabled THEN [inp |-> s, click |-> FALSE]
    ELSE IF s.locked
        THEN [inp |-> [s EXCEPT !.isDragging = FALSE], click |-> FALSE]
    ELSE IF ~IsEventOnCanvas(event)
        THEN [inp |-> [s EXCEPT !.isDragging = FALSE], click |-> FALSE]
    ELSE [inp |-> [s EXCEPT !.isDragging = FALSE],
          click |-> DistBelowThreshold(event, s.dragStartPosition)]

\* Mutant: the radius target is not clamped.
OnWheelNoClamp(s, event) ==
    IF ~s.enabled \/ s.locked THEN [inp |-> s, prevented |-> FALSE]
    ELSE IF ~IsEventOnCanvas(event) THEN [inp |-> s, prevented |-> FALSE]
    ELSE [inp |-> [s EXCEPT !.targetRadius =
                      s.targetRadius + event.deltaY * ZoomSpeed],
          prevented |-> TRUE]

\* The state onWheel leaves, and whether it calls preventDefault.
OnWheel(s, event) ==
    IF ~s.enabled \/ s.locked THEN [inp |-> s, prevented |-> FALSE]
    ELSE IF ~IsEventOnCanvas(event) THEN [inp |-> s, prevented |-> FALSE]
    ELSE [inp |-> [s EXCEPT !.targetRadius =
                      Clamp(MinRadius, MaxRadius,
                            s.targetRadius + event.deltaY * ZoomSpeed)],
          prevented |-> TRUE]

\* ------------------------------------------------ SceneSetup: the registry
\* A scene graph: parent[n] is n's parent (Null at a root), flagged holds the
\* nodes whose userData.isInteractable is set.
RegisterInteractable(objs, sc, object3D) ==
    IF object3D = Null THEN objs
    ELSE IF object3D \in sc.flagged THEN Append(objs, object3D)
    ELSE objs

UnregisterInteractable(objs, object3D) ==
    SelectSeq(objs, LAMBDA obj : obj # object3D)

GetInteractableObjects(objs) == objs

\* --------------------------------------------------- Input: click resolution
RECURSIVE Ancestor(_, _, _)
Ancestor(sc, n, k) ==
    IF k = 0 \/ n = Null THEN n ELSE Ancestor(sc, sc.parent[n], k - 1)

\* raycaster.intersectObjects(interactables, true): the hit lists the ray
\* query can return are the sequences, nearest first, of at most maxHits nodes
\* that are a registered object or one of its descendants.
UnderRegistered(sc, objs, n) ==
    \E k \in 0 .. MaxNodes :
        \E i \in 1 .. Len(objs) : Ancestor(sc, n, k) = objs[i]

HitLists(sc, objs, maxHits) ==
    LET cand == {n \in Nodes : UnderRegistered(sc, objs, n)}
    IN  UNION {[1 .. len -> cand] : len \in 0 .. maxHits}

\* Mutant: the walk goes on after a flagged node (no break).
WalkStepNoBreak(sc, w) ==
    IF w.obj # Null /\ w.depth < MaxWalkDepth
    THEN [w EXCEPT !.found = IF w.obj \in sc.flagged THEN w.obj ELSE w.found,
                   !.obj = sc.parent[w.obj], !.depth = w.depth + 1,
                   !.inspected = w.inspected + 1]
    ELSE [w EXCEPT !.done = TRUE]

\* Mutant: the loop has no depth bound.
WalkStepUnbounded(sc, w) ==
    IF w.obj # Null
    THEN IF w.obj \in sc.flagged
         THEN [w EXCEPT !.found = w.obj, !.inspected = w.inspected + 1,
                        !.done = TRUE]
         ELSE [w EXCEPT !.obj = sc.parent[w.obj], !.depth = w.depth + 1,
                        !.inspected = w.inspected + 1]
    ELSE [w EXCEPT !.done = TRUE]

\* One evaluation of the loop condition of the ancestor walk and, when it
\* holds, one run of the loop body.  w.inspected counts the nodes whose flag
\* was read, w.done says the loop was left.
WalkStep(sc, w) ==
    IF w.obj # Null /\ w.depth < MaxWalkDepth
    THEN IF w.obj \in sc.flagged
         THEN [w EXCEPT !.found = w.obj, !.inspected = w.inspected + 1,
                        !.done = TRUE]
         ELSE [w EXCEPT !.obj = sc.parent[w.obj], !.depth = w.depth + 1,
                        !.inspected = w.inspected + 1]
    ELSE [w EXCEPT !.done = TRUE]

RECURSIVE WalkRun(_, _, _)
WalkRun(sc, w, fuel) ==
    IF w.done \/ fuel = 0 THEN w ELSE WalkRun(sc, WalkStep(sc, w), fuel - 1)

Walk(sc, hitObject) ==
    WalkRun(sc,
            [obj |-> hitObject, depth |-> 0, found |-> Null, inspected |-> 0,
             done |-> FALSE],
            WalkFuel)

NoClick ==
    [ray |-> << >>, hits |-> << >>, inspected |-> 0, walkDone |-> TRUE,
     found |-> Null, nCallback |-> 0, cbArg |-> Null]

\* Mutant: a click that finds no flagged node is reported with the hit mesh.
ProcessClickFallback(s, objs, cam, sc, hits) ==
    IF cam = Null THEN [inp |-> s, objs |-> objs, did |-> NoClick]
    ELSE IF Len(hits) > 0
    THEN LET w == WalkRun(sc, [obj |-> hits[1], depth |-> 0, found |-> Null,
                                inspected |-> 0, done |-> FALSE], WalkFuel)
             target == IF w.found # Null THEN w.found ELSE hits[1]
             fire == s.onObjectClicked # Null
         IN  [inp |-> s, objs |-> objs,
              did |-> [ray |-> s.mouse, hits |-> hits,
                       inspected |-> w.inspected, walkDone |-> w.done,
                       found |-> w.found,
                       nCallback |-> IF fire THEN 1 ELSE 0,
                       cbArg |-> IF fire THEN target ELSE Null]]
    ELSE [inp |-> s, objs |-> objs, did |-> [NoClick EXCEPT !.ray = s.mouse]]

\* processClick on Input s with the registry objs: the state it leaves (it
\* assigns nothing), and in .did the ray it cast, the hit list it obtained,
\* the walk it made and the callback it invoked.
ProcessClick(s, objs, cam, sc, hits) ==
    IF cam = Null THEN [inp |-> s, objs |-> objs, did |-> NoClick]
    ELSE IF Len(hits) > 0
    THEN LET w == Walk(sc, hits[1])
             fire == w.found # Null /\ s.onObjectClicked # Null
         IN  [inp |-> s, objs |-> objs,
              did |-> [ray |-> s.mouse, hits |-> hits,
                       inspected |-> w.inspected, walkDone |-> w.done,
                       found |-> w.found,
                       nCallback |-> IF fire THEN 1 ELSE 0,
                       cbArg |-> IF fire THEN w.found ELSE Null]]
    ELSE [inp |-> s, objs |-> objs, did |-> [NoClick EXCEPT !.ray = s.mouse]]

\* ------------------------------------------------------------ Input: update
\* Mutant: dt is not clamped to 0.1 s.
LerpQuartersUnclamped(elapsedMs) == (DampingFactor * elapsedMs * 4) \div 1000

\* dt = min((now - lastTime) / 1000, 0.1) and lerpFactor = dampingFactor * dt,
\* as a number of quarters: the frame times drawn are multiples of 50 ms.
LerpQuarters(elapsedMs) ==
    (DampingFactor * Min(elapsedMs, MaxDtMs) * 4) \div 1000

\* Mutant: the difference is scaled by the number of quarters, not by the
\* factor.
LerpByQuarters(current, target, q) == current + (target - current) * q

Lerp(current, target, q) == current + ((target - current) * q) \div 4

TwoPi == 2 * PiScaled

\* while (angleDiff > Math.PI) angleDiff -= Math.PI * 2;
RECURSIVE WrapDown(_)
WrapDown(d) == IF d > PiScaled THEN WrapDown(d - TwoPi) ELSE d

\* while (angleDiff < -Math.PI) angleDiff += Math.PI * 2;
RECURSIVE WrapUp(_)
WrapUp(d) == IF d < -PiScaled THEN WrapUp(d + TwoPi) ELSE d

\* Mutant: the difference is not normalized.
AngleDiffRaw(target, current) == target - current

AngleDiff(target, current) == WrapUp(WrapDown(target - current))

\* Mutant: the camera is not looked at.
UpdateWithoutCamera(s, cam, elapsedMs) ==
    LET q == LerpQuarters(elapsedMs)
    IN  [s EXCEPT
           !.currentAngle =
               s.currentAngle
               + (AngleDiff(s.targetAngle, s.currentAngle) * q) \div 4,
           !.currentHeight = Lerp(s.currentHeight, s.targetHeight, q),
           !.currentRadius = Lerp(s.currentRadius, s.targetRadius, q),
           !.currentLook =
               [i \in 1 .. 3 |-> Lerp(s.currentLook[i], s.targetLook[i], q)]]

Update(s, cam, elapsedMs) ==
    IF cam = Null THEN s
    ELSE LET q == LerpQuarters(elapsedMs)
         IN  [s EXCEPT
                !.currentAngle =
                    s.currentAngle
                    + (AngleDiff(s.targetAngle, s.currentAngle) * q) \div 4,
                !.currentHeight = Lerp(s.currentHeight, s.targetHeight, q),
                !.currentRadius = Lerp(s.currentRadius, s.targetRadius, q),
                !.currentLook =
                    [i \in 1 .. 3 |->
                        Lerp(s.currentLook[i], s.targetLook[i], q)]]


(***************************************************************************)
(* State.                                                                  *)
(*   inp                 the Input object                                  *)
(*   camera              sceneSetup.camera: Null until SceneSetup.init     *)
(*   interactableObjects sceneSetup.interactableObjects                    *)
(*   scene               the scene graph the host built (parent, flagged)  *)
(*   nUpdates            frames advanced so far (bounded by MaxUpdates)    *)
(*   gesture             history: the last pointer-down not yet followed   *)
(*                       by a pointer-up, whether it met the acceptance    *)
(*                       conditions, the angle target it found if it did,  *)
(*                       and whether a gate call discarded a drag since    *)
(*   out                 history: the operation that ran last and what it  *)
(*                       did besides assigning fields of inp               *)
(***************************************************************************)
VARIABLES inp, camera, interactableObjects, scene, nUpdates, gesture, out

vars == <<inp, camera, interactableObjects, scene, nUpdates, gesture, out>>

NoGesture ==
    [down |-> << >>, accepted |-> FALSE, cancelled |-> FALSE,
     gatesChanged |-> FALSE, angle0 |-> 0]

NoOut ==
    [op |-> "new", pos |-> << >>, onCanvas |-> FALSE, gest |-> NoGesture,
     nProcessClick |-> 0, click |-> NoClick, prevented |-> FALSE]

Did(op) == [NoOut EXCEPT !.op = op]

\* ------------------------------------------------------------ scene graphs
ChainParent == [n \in Nodes |-> IF n < MaxNodes THEN n + 1 ELSE Null]
RingParent == [n \in Nodes |-> IF n < MaxNodes THEN n + 1 ELSE 1]
SelfParent == [n \in Nodes |-> n]

AllScenes ==
    {[parent |-> p, flagged |-> f] :
        p \in {ChainParent, RingParent, SelfParent},
        f \in {g \in SUBSET Nodes : Cardinality(g) <= 2}}

NoScene == [parent |-> [n \in Nodes |-> Null], flagged |-> {}]

\* ------------------------------------------------------------------ actions
SceneInit ==
    /\ camera' = Camera
    /\ out' = Did("init")
    /\ UNCHANGED <<inp, interactableObjects, scene, nUpdates, gesture>>

Register ==
    \E o \in Nodes \cup {Null} :
        /\ Len(interactableObjects) < MaxRegistered
        /\ interactableObjects' =
               RegisterInteractable(interactableObjects, scene, o)
        /\ out' = Did("register")
        /\ UNCHANGED <<inp, camera, scene, nUpdates, gesture>>

Unregister ==
    \E o \in Nodes :
        /\ interactableObjects' = UnregisterInteractable(interactableObjects, o)
        /\ out' = Did("unregister")
        /\ UNCHANGED <<inp, camera, scene, nUpdates, gesture>>

\* The host assigns the onObjectClicked slot.
SetCallback ==
    \E cb \in Callbacks \cup {Null} :
        /\ inp' = [inp EXCEPT !.onObjectClicked = cb]
        /\ out' = Did("setCallback")
        /\ UNCHANGED <<camera, interactableObjects, scene, nUpdates, gesture>>

\* A gate call that can discard a drag and finds one in progress, and one
\* that changes a gate, are remembered in the gesture.
GateCall(g, before, after, cancels) ==
    IF g.down = << >> THEN g
    ELSE [g EXCEPT
            !.cancelled = g.cancelled \/ (cancels /\ before.isDragging),
            !.gatesChanged = g.gatesChanged
                             \/ before.enabled # after.enabled
                             \/ before.locked # after.locked]

CallSetEnabled ==
    \E b \in BOOLEAN :
        /\ inp' = SetEnabled(inp, b)
        /\ gesture' = GateCall(gesture, inp, inp', ~b)
        /\ out' = Did(IF b THEN "setEnabled(true)" ELSE "setEnabled(false)")
        /\ UNCHANGED <<camera, interactableObjects, scene, nUpdates>>

CallSetLocked ==
    \E b \in BOOLEAN :
        /\ inp' = SetLocked(inp, b)
        /\ gesture' = GateCall(gesture, inp, inp', b)
        /\ out' = Did(IF b THEN "setLocked(true)" ELSE "setLocked(false)")
        /\ UNCHANGED <<camera, interactableObjects, scene, nUpdates>>

CallSetLookTarget ==
    \E v \in LookTargets :
        /\ inp' = SetLookTarget(inp, v)
        /\ out' = Did("setLookTarget")
        /\ UNCHANGED <<camera, interactableObjects, scene, nUpdates, gesture>>

CallMoveCameraTo ==
    \E v \in LookTargets \cup {<< >>} :
        /\ inp' = MoveCameraTo(inp, v)
        /\ out' = Did("moveCameraTo")
        /\ UNCHANGED <<camera, interactableObjects, scene, nUpdates, gesture>>

\* The acceptance conditions of a pointer-down, as the specification words
\* them: gates open, on the render surface, primary or secondary button.
DownAccepted(s, e) ==
    s.enabled /\ ~s.locked /\ e.tagName = "CANVAS" /\ e.button \in {0, 2}

PointerDownWith(e) ==
    /\ inp' = OnMouseDown(inp, e)
    /\ gesture' = [NoGesture EXCEPT
                       !.down = <<e.clientX, e.clientY>>,
                       !.accepted = DownAccepted(inp, e),
                       !.angle0 = IF DownAccepted(inp, e)
                                  THEN inp.targetAngle ELSE 0]
    /\ out' = Did("mousedown")
    /\ UNCHANGED <<camera, interactableObjects, scene, nUpdates>>

PointerDown == \E e \in DownEvents : PointerDownWith(e)

\* The model follows the angle target within MaxDragPx pixels of horizontal
\* drag around its initial value.
AngleInBudget(s) ==
    /\ s.targetAngle - InitAngle <= MaxDragPx * RotateSpeed
    /\ InitAngle - s.targetAngle <= MaxDragPx * RotateSpeed

PointerMoveWith(e) ==
    /\ AngleInBudget(OnMouseMove(inp, e))
    /\ inp' = OnMouseMove(inp, e)
    /\ out' = [Did("mousemove") EXCEPT !.pos = <<e.clientX, e.clientY>>]
    /\ UNCHANGED <<camera, interactableObjects, scene, nUpdates, gesture>>

PointerMove == \E e \in MoveEvents : PointerMoveWith(e)

PointerUpWith(e, hits) ==
    LET r == OnMouseUp(inp, e)
        c == IF r.click
             THEN ProcessClick(r.inp, GetInteractableObjects(interactableObjects),
                               camera, scene, hits)
             ELSE [inp |-> r.inp, objs |-> interactableObjects, did |-> NoClick]
    IN  /\ inp' = c.inp
        /\ interactableObjects' = c.objs
        /\ gesture' = NoGesture
        /\ out' = [op |-> "mouseup",
                   pos |-> <<e.clientX, e.clientY>>,
                   onCanvas |-> e.tagName = "CANVAS",
                   gest |-> gesture,
                   nProcessClick |-> IF r.click THEN 1 ELSE 0,
                   click |-> c.did,
                   prevented |-> FALSE]
        /\ UNCHANGED <<camera, scene, nUpdates>>

PointerUp ==
    \E e \in UpEvents :
        \E hits \in HitLists(scene, GetInteractableObjects(interactableObjects),
                             MaxHits) :
            PointerUpWith(e, hits)

WheelTurnWith(e) ==
    LET r == OnWheel(inp, e)
    IN  /\ inp' = r.inp
        /\ out' = [Did("wheel") EXCEPT !.onCanvas = IsEventOnCanvas(e),
                                       !.prevented = r.prevented]
        /\ UNCHANGED <<camera, interactableObjects, scene, nUpdates, gesture>>

WheelTurn == \E e \in WheelEvents : WheelTurnWith(e)

Frame ==
    \E ms \in ElapsedMs :
        /\ nUpdates < MaxUpdates
        /\ inp' = Update(inp, camera, ms)
        /\ nUpdates' = IF camera = Null THEN nUpdates ELSE nUpdates + 1
        /\ out' = Did("update")
        /\ UNCHANGED <<camera, interactableObjects, scene, gesture>>

\* A press and release of the primary button on the canvas at one position.
ClickEvents ==
    {[clientX |-> 0, clientY |-> 900, tagName |-> "CANVAS", button |-> 0]}

ClickDown == \E e \in ClickEvents : PointerDownWith(e)

ClickUp ==
    \E e \in ClickEvents :
        \E hits \in HitLists(scene, GetInteractableObjects(interactableObjects),
                             MaxHits) :
            PointerUpWith(e, hits)

\* A pointer-move 900 px below the press of ClickEvents.
PanEvents ==
    {[clientX |-> 0, clientY |-> 1800, tagName |-> "CANVAS", button |-> 0]}

PanMove == \E e \in PanEvents : PointerMoveWith(e)

\* A press at x = 1000 and pointer-moves 500, 1000 and 2000 px away from
\* each other: 500 px of drag turn the angle target by 2 radians.
TurnDownEvents ==
    {[clientX |-> 1000, clientY |-> 900, tagName |-> "CANVAS", button |-> 0]}

TurnMoveEvents ==
    {[clientX |-> x, clientY |-> 900, tagName |-> "CANVAS", button |-> 0] :
        x \in {0, 500, 1000, 2000}}

\* The model follows the angle target within MaxTurns whole turns around its
\* initial value.
AngleWithinTurns(s) ==
    /\ s.targetAngle - InitAngle <= MaxTurns * TwoPi
    /\ InitAngle - s.targetAngle <= MaxTurns * TwoPi

TurnDown == \E e \in TurnDownEvents : PointerDownWith(e)

TurnMove ==
    \E e \in TurnMoveEvents :
        /\ AngleWithinTurns(OnMouseMove(inp, e))
        /\ inp' = OnMouseMove(inp, e)
        /\ out' = [Did("mousemove") EXCEPT !.pos = <<e.clientX, e.clientY>>]
        /\ UNCHANGED <<camera, interactableObjects, scene, nUpdates, gesture>>

\* A press at x = 100 and pointer-moves to it and 2 and 4 px to its right.
DragDownEvents ==
    {[clientX |-> 100, clientY |-> 900, tagName |-> "CANVAS", button |-> 0]}

DragMoveEvents ==
    {[clientX |-> x, clientY |-> 900, tagName |-> "CANVAS", button |-> 0] :
        x \in {100, 102, 104}}

DragDown == \E e \in DragDownEvents : PointerDownWith(e)

DragMove == \E e \in DragMoveEvents : PointerMoveWith(e)

DragUp == \E e \in DragDownEvents : PointerUpWith(e, << >>)

(***************************************************************************)
(* Specifications.  The controller's parts do not read each other's        *)
(* state, so each is explored with the operations that drive it:           *)
(*   Spec          the gesture classifier and the gates: pointer events,   *)
(*                 wheel events, setEnabled and setLocked                  *)
(*   SpecResolver  click resolution: scene set-up, the registry, the       *)
(*                 callback slot and clicks, over a family of scene graphs *)
(*   SpecRig       the camera rig: wheel, look target, a press, a vertical *)
(*                 drag and a release, and frame updates                   *)
(*   SpecTurn      the angle: a press, wide horizontal drags over several  *)
(*                 turns, and frame updates                                *)
(*   SpecDrag      one horizontal drag split into moves, under gate calls  *)
(***************************************************************************)
InitInput ==
    /\ inp = InputNew
    /\ camera = Null
    /\ interactableObjects = << >>
    /\ nUpdates = 0
    /\ gesture = NoGesture
    /\ out = NoOut

Init == InitInput /\ scene = NoScene

Next ==
    \/ CallSetEnabled
    \/ CallSetLocked
    \/ PointerDown
    \/ PointerMove
    \/ PointerUp
    \/ WheelTurn

Spec == Init /\ [][Next]_vars

InitResolver == InitInput /\ scene \in AllScenes

NextResolver ==
    \/ SceneInit
    \/ Register
    \/ Unregister
    \/ SetCallback
    \/ ClickDown
    \/ ClickUp

SpecResolver == InitResolver /\ [][NextResolver]_vars

NextRig ==
    \/ SceneInit
    \/ WheelTurn
    \/ CallSetLookTarget
    \/ CallMoveCameraTo
    \/ Frame
    \/ ClickDown
    \/ PanMove
    \/ ClickUp

SpecRig == Init /\ [][NextRig]_vars

NextTurn ==
    \/ SceneInit
    \/ TurnDown
    \/ TurnMove
    \/ Frame

SpecTurn == Init /\ [][NextTurn]_vars

NextDrag ==
    \/ DragDown
    \/ DragMove
    \/ DragUp
    \/ CallSetEnabled
    \/ CallSetLocked

SpecDrag == Init /\ [][NextDrag]_vars

(***************************************************************************)
(* Properties.                                                             *)
(***************************************************************************)
Targets(s) == <<s.targetAngle, s.targetHeight, s.targetRadius>>

PointerOps == {"mousedown", "mousemove", "mouseup", "wheel"}

TargetsInRange(s) ==
    /\ MinRadius <= s.targetRadius /\ s.targetRadius <= MaxRadius
    /\ MinHeight <= s.targetHeight /\ s.targetHeight <= MaxHeight

\* Euclidean distance between two pixel positions strictly below 5 px.
Near(p, q) ==
    (p[1] - q[1]) * (p[1] - q[1]) + (p[2] - q[2]) * (p[2] - q[2]) < 25

ReleasedUp == out.op = "mouseup"

Clicked == out.op = "mouseup" /\ out.nProcessClick = 1

\* The levels k <= maxLevel at which the k-th ancestor of n (n itself at
\* level 0) exists and is flagged, and the flagged node at the lowest level.
FlagLevels(sc, n, maxLevel) ==
    {k \in 0 .. maxLevel :
        Ancestor(sc, n, k) # Null /\ Ancestor(sc, n, k) \in sc.flagged}

NearestFlagged(sc, n, maxLevel) ==
    LET ks == FlagLevels(sc, n, maxLevel)
    IN  Ancestor(sc, n, CHOOSE k \in ks : \A j \in ks : k <= j)

\* C1: while locked is true, a pointer-down, pointer-move, pointer-up or wheel
\* event changes none of targetAngle, targetHeight, targetRadius and invokes
\* neither processClick nor onObjectClicked, whatever enabled is.
C1_LockedBlocksInput ==
    [][(inp.locked /\ out'.op \in PointerOps)
        => /\ Targets(inp') = Targets(inp)
           /\ out'.nProcessClick = 0
           /\ out'.click.nCallback = 0]_vars

\* A drag was begun, the lock engaged, and the button released on the canvas
\* where it was pressed, with enabled still true.
C1_Witness ==
    /\ ReleasedUp /\ inp.locked /\ inp.enabled
    /\ out.gest.accepted /\ out.onCanvas /\ out.pos = out.gest.down

\* C2: after any sequence of operations targetRadius is within
\* [minRadius, maxRadius] = [150, 600] and targetHeight within
\* [minHeight, maxHeight] = [50, 500]; a frame update taken in any reachable
\* state, camera present or not, leaves them there.
C2_TargetsClamped ==
    /\ TargetsInRange(inp)
    /\ \A ms \in ElapsedMs : \A cam \in {Null, Camera} :
           TargetsInRange(Update(inp, cam, ms))

\* A wheel event has just pushed the radius target to its lower limit while
\* a drag had pushed the height target to its upper limit.
C2_Witness ==
    /\ out.op = "wheel" /\ out.prevented
    /\ inp.targetRadius = MinRadius /\ inp.targetHeight = MaxHeight

\* C3: setLocked(true) or setEnabled(false) during a drag leaves isDragging
\* false at once, and the pointer-up that ends that gesture resolves no click
\* and changes no target, whatever gate calls came in between.
C3_CancelledDragNeverClicks ==
    [][/\ (out'.op \in {"setLocked(true)", "setEnabled(false)"}
             => ~inp'.isDragging)
       /\ ((out'.op = "mouseup" /\ gesture.cancelled)
             => out'.nProcessClick = 0 /\ Targets(inp') = Targets(inp))]_vars

\* C4: an accepted pointer-down followed, with the gates unchanged, by a
\* pointer-up on the canvas less than 5 px away invokes processClick exactly
\* once and leaves isDragging false.
C4_CloseReleaseClicks ==
    (/\ ReleasedUp /\ out.gest.accepted /\ ~out.gest.gatesChanged
     /\ out.onCanvas /\ Near(out.pos, out.gest.down))
        => out.nProcessClick = 1 /\ ~inp.isDragging

\* An accepted press released 2 or 3 px away, gates untouched: a click.
C4_Witness ==
    /\ ReleasedUp /\ out.gest.accepted /\ ~out.gest.gatesChanged
    /\ out.onCanvas /\ out.pos # out.gest.down /\ Near(out.pos, out.gest.down)
    /\ out.nProcessClick = 1 /\ ~inp.isDragging

\* C5: a pointer-up 5 px or more away from the position of the pointer-down
\* before it never invokes processClick, whether or not that pointer-down was
\* accepted.
C5_FarReleaseNeverClicks ==
    (ReleasedUp /\ out.gest.down # << >> /\ ~Near(out.pos, out.gest.down))
        => out.nProcessClick = 0

\* C6: a pointer-up whose target is not the canvas, with enabled true and
\* locked false, ends the drag and invokes no click resolution, at any
\* distance from the down position.
C6_OffCanvasReleaseEndsDrag ==
    (ReleasedUp /\ ~out.onCanvas /\ inp.enabled /\ ~inp.locked)
        => ~inp.isDragging /\ out.nProcessClick = 0

\* An accepted press released off the canvas at the very same position.
C6_Witness ==
    /\ ReleasedUp /\ ~out.onCanvas /\ inp.enabled /\ ~inp.locked
    /\ out.gest.accepted /\ ~out.gest.gatesChanged
    /\ out.pos = out.gest.down /\ ~inp.isDragging /\ out.nProcessClick = 0

\* C7 as claimed: with a non-empty hit list and a callback registered, when
\* the nearest hit's node or an ancestor up to 5 levels above it is flagged,
\* the callback runs exactly once, with the flagged node closest to the hit.
C7_CallbackWithinFiveLevels ==
    (/\ Clicked /\ out.click.hits # << >> /\ inp.onObjectClicked # Null
     /\ FlagLevels(scene, out.click.hits[1], MaxWalkDepth) # {})
        => /\ out.click.nCallback = 1
           /\ out.click.cbArg =
                  NearestFlagged(scene, out.click.hits[1], MaxWalkDepth)

\* C7 amended: the same with the ancestors up to 4 levels above the hit node
\* (the 5 nodes the walk inspects).
C7_CallbackWithinWalk ==
    (/\ Clicked /\ out.click.hits # << >> /\ inp.onObjectClicked # Null
     /\ FlagLevels(scene, out.click.hits[1], MaxWalkDepth - 1) # {})
        => /\ out.click.nCallback = 1
           /\ out.click.cbArg =
                  NearestFlagged(scene, out.click.hits[1], MaxWalkDepth - 1)

\* The callback ran with the 3rd-level ancestor of an unflagged hit mesh,
\* while a farther ancestor and the node of the second hit are flagged too.
C7_Witness ==
    /\ Clicked /\ Len(out.click.hits) = 2 /\ out.click.nCallback = 1
    /\ out.click.cbArg = Ancestor(scene, out.click.hits[1], 3)
    /\ FlagLevels(scene, out.click.hits[1], MaxWalkDepth - 1) = {3}
    /\ out.click.hits[2] \in scene.flagged
    /\ out.click.hits[2] # out.click.cbArg

\* A click that obtained no hit, or whose nearest hit has no flagged node
\* among the nodes the walk inspects, or that found no callback registered.
QuietClick(o, s, sc) ==
    \/ o.click.hits = << >>
    \/ FlagLevels(sc, o.click.hits[1], MaxWalkDepth - 1) = {}
    \/ s.onObjectClicked = Null

\* C8: such a click invokes no callback and changes neither the controller
\* state (beyond the end of the drag that onMouseUp itself makes) nor the
\* registry.
C8_QuietClickChangesNothing ==
    [][(out'.op = "mouseup" /\ out'.nProcessClick = 1
        /\ QuietClick(out', inp', scene'))
        => /\ out'.click.nCallback = 0
           /\ inp' = [inp EXCEPT !.isDragging = FALSE]
           /\ interactableObjects' = interactableObjects
           /\ camera' = camera]_vars

\* A click hit a mesh whose only flagged ancestor lies above the nodes the
\* walk inspects: callback registered, not invoked.
C8_Witness ==
    /\ Clicked /\ out.click.hits # << >> /\ inp.onObjectClicked # Null
    /\ FlagLevels(scene, out.click.hits[1], MaxWalkDepth - 1) = {}
    /\ FlagLevels(scene, out.click.hits[1], MaxNodes) # {}
    /\ out.click.nCallback = 0 /\ interactableObjects # << >>

\* C9: the ancestor walk inspects at most 5 nodes and is left, for every
\* parent structure, cyclic ones included.
C9_WalkBounded == out.click.walkDone /\ out.click.inspected <= 5

\* A walk round a cycle of unflagged nodes: 5 nodes inspected, none found.
C9_Witness ==
    /\ Clicked /\ out.click.hits # << >> /\ out.click.walkDone
    /\ out.click.inspected = 5 /\ out.click.found = Null
    /\ scene.parent \in {RingParent, SelfParent}

\* C10: from every reachable state, setEnabled(false) twice gives the state
\* setEnabled(false) once gives, and so for setLocked(true); after the first
\* call no drag is in progress.
C10_CancelIdempotent ==
    LET once == SetEnabled(inp, FALSE)
        lock == SetLocked(inp, TRUE)
    IN  /\ SetEnabled(once, FALSE) = once /\ ~once.isDragging
        /\ SetLocked(lock, TRUE) = lock /\ ~lock.isDragging

\* setLocked(true) has just discarded a drag in progress.
C10_Witness ==
    /\ out.op = "setLocked(true)" /\ gesture.cancelled
    /\ inp.locked /\ ~inp.isDragging

\* C11: every wheel event on the canvas has preventDefault called, whatever
\* the gates are, while the radius target changes only with enabled true and
\* locked false, and then to the clamped sum.
C11_WheelAlwaysSuppressed ==
    [][(out'.op = "wheel" /\ out'.onCanvas)
        => /\ out'.prevented
           /\ (inp'.targetRadius # inp.targetRadius
                 => inp.enabled /\ ~inp.locked)
           /\ \E e \in WheelEvents :
                  inp'.targetRadius \in
                      {inp.targetRadius,
                       Clamp(MinRadius, MaxRadius,
                             inp.targetRadius + e.deltaY * ZoomSpeed)}]_vars

\* A scene with a flagged mesh, registered and hit, and a callback in place.
ProbeScene == [parent |-> ChainParent, flagged |-> {1}]

\* C12: while sceneSetup.camera is null, update() leaves the controller as it
\* is and processClick() casts no ray, queries no hit, invokes no callback and
\* changes no target or current value, however the calls are interleaved.
C12_NoCameraNoOps ==
    [][camera = Null
        => /\ (out'.op = "update" => inp' = inp)
           /\ (out'.op = "mouseup"
                 => /\ out'.click = NoClick
                    /\ inp' = [inp EXCEPT !.isDragging = inp'.isDragging])
           /\ LET s == [inp EXCEPT !.onObjectClicked = 1]
                  c == ProcessClick(s, <<1>>, camera, ProbeScene, <<1>>)
              IN  c.inp = s /\ c.objs = <<1>> /\ c.did = NoClick]_vars

\* Without a camera: a wheel turn and a drag moved two targets away from the
\* current values, a press and release at one position called processClick,
\* and update() was then called.
C12_Witness ==
    /\ camera = Null /\ out.op = "update"
    /\ inp.dragStartPosition = <<0, 900>> /\ gesture = NoGesture
    /\ ~inp.isDragging
    /\ inp.targetRadius # inp.currentRadius
    /\ inp.targetHeight # inp.currentHeight

\* The step from current value c to c2 goes toward the target t and not past
\* it: t - c2 never has the sign opposite to t - c, and no larger a magnitude.
NoOvershoot(c, c2, t) ==
    /\ (t >= c => c <= c2 /\ c2 <= t)
    /\ (t <= c => t <= c2 /\ c2 <= c)

\* C13: every update() uses a lerp factor in [0, 1], at most 0.5 since dt is
\* clamped to 0.1 s, leaves the targets alone, and moves currentRadius,
\* currentHeight and each axis of currentLook toward the target without
\* overshoot, whatever time has elapsed since the frame before.
C13_LerpNeverOvershoots ==
    [][(out'.op = "update" /\ camera # Null)
        => /\ \A ms \in ElapsedMs :
                  0 <= LerpQuarters(ms) /\ LerpQuarters(ms) * 2 <= 4
           /\ NoOvershoot(inp.currentRadius, inp'.currentRadius,
                          inp.targetRadius)
           /\ NoOvershoot(inp.currentHeight, inp'.currentHeight,
                          inp.targetHeight)
           /\ \A i \in 1 .. 3 :
                  NoOvershoot(inp.currentLook[i], inp'.currentLook[i],
                              inp.targetLook[i])]_vars

\* Two updates have run with radius, height and look-at on their way: each
\* has left its initial value and has not arrived.
C13_Witness ==
    /\ out.op = "update" /\ camera # Null /\ nUpdates = MaxUpdates
    /\ inp.currentRadius \notin {InitRadius, inp.targetRadius}
    /\ inp.currentHeight \notin {InitHeight, inp.targetHeight}
    /\ inp.currentLook[1] \notin {InitLook[1], inp.targetLook[1]}
    /\ inp.currentLook[3] \notin {InitLook[3], inp.targetLook[3]}

\* What an update() just taken with a camera did to the angle: the raw
\* difference it found, the difference it normalized it to, the step it took.
AngleStep(s, s2) ==
    [raw |-> s.targetAngle - s.currentAngle,
     norm |-> AngleDiff(s.targetAngle, s.currentAngle),
     step |-> s2.currentAngle - s.currentAngle]

\* The normalized difference is the raw one up to whole turns, and the step
\* is a part of it: same direction, no longer.
AlongNormalized(a) ==
    /\ (a.raw - a.norm) % TwoPi = 0
    /\ (a.norm >= 0 => 0 <= a.step /\ a.step <= a.norm)
    /\ (a.norm <= 0 => a.norm <= a.step /\ a.step <= 0)

\* C14 as claimed: update() normalizes targetAngle - currentAngle by whole
\* turns into (-pi, pi] and steps along it, so the current angle moves in the
\* direction of the shorter arc by at most half a turn's worth of difference.
C14_ShorterArcHalfOpen ==
    [][(out'.op = "update" /\ camera # Null)
        => LET a == AngleStep(inp, inp')
           IN  /\ AlongNormalized(a)
               /\ -PiScaled < a.norm /\ a.norm <= PiScaled]_vars

\* C14 amended: the same with the closed range [-pi, pi]: a difference of
\* exactly -pi is left as it is.
C14_ShorterArc ==
    [][(out'.op = "update" /\ camera # Null)
        => LET a == AngleStep(inp, inp')
           IN  /\ AlongNormalized(a)
               /\ -PiScaled <= a.norm /\ a.norm <= PiScaled]_vars

\* The first update() found the target more than a turn and a half above the
\* current angle and moved the current angle down, along the shorter arc.
C14_Witness ==
    /\ out.op = "update" /\ camera # Null /\ nUpdates = 1
    /\ inp.targetAngle - InitAngle > 3 * PiScaled
    /\ inp.currentAngle < InitAngle

Currents(s) ==
    <<s.currentRadius, s.currentAngle, s.currentHeight, s.currentLook>>

\* What update() has no business with: the targets, the gates, the drag
\* session.
NotForUpdate(s) ==
    <<s.targetRadius, s.targetAngle, s.targetHeight, s.targetLook,
      s.enabled, s.locked,
      s.isDragging, s.previousMousePosition, s.dragStartPosition>>

\* C15: setLookTarget changes targetLook and nothing else; the pointer and
\* wheel handlers, setEnabled and setLocked leave the four current values as
\* they are; update() leaves the targets, the gates and the drag session as
\* they are.
C15_DisjointWriters ==
    [][/\ (out'.op = "setLookTarget"
             => inp' = [inp EXCEPT !.targetLook = inp'.targetLook])
       /\ (out'.op \in PointerOps => Currents(inp') = Currents(inp))
       /\ \A b \in BOOLEAN :
              /\ Currents(SetEnabled(inp, b)) = Currents(inp)
              /\ Currents(SetLocked(inp, b)) = Currents(inp)
       /\ (out'.op = "update" => NotForUpdate(inp') = NotForUpdate(inp))]_vars

\* setLookTarget has just been called while the look-at point was on its
\* way: the current point is neither the initial one nor the new target.
C15_Witness ==
    /\ out.op = "setLookTarget" /\ camera # Null /\ nUpdates >= 1
    /\ inp.currentLook # InitLook
    /\ inp.targetLook # inp.currentLook
    /\ inp.targetLook = InitLook

DragSession(s) ==
    <<s.isDragging, s.dragStartPosition, s.previousMousePosition>>

\* C16: a pointer-down takes the classifier from Idle to Dragging exactly
\* when enabled is true, locked is false, the target is the canvas and the
\* button is 0 or 2, and then records its position as down and last position;
\* any other pointer-down leaves isDragging and both positions as they are.
C16_PointerDownAcceptance ==
    [][out'.op = "mousedown"
        => /\ (~inp.isDragging
                 => (inp'.isDragging <=> gesture'.accepted))
           /\ (gesture'.accepted
                 => DragSession(inp')
                        = <<TRUE, gesture'.down, gesture'.down>>)
           /\ (~gesture'.accepted
                 => DragSession(inp') = DragSession(inp))]_vars

\* With the gates open and no drag in progress, a pointer-down off the
\* canvas or with the middle button: still idle, and the positions are those
\* an earlier drag left.
C16_Witness ==
    /\ out.op = "mousedown" /\ ~gesture.accepted
    /\ inp.enabled /\ ~inp.locked /\ ~inp.isDragging
    /\ gesture.down = <<5, 900>>
    /\ inp.dragStartPosition = <<3, 900>>
    /\ inp.previousMousePosition = <<0, 1800>>

\* C17: when a pointer-up is classified as a click, the ray is cast through
\* the normalized device coordinates of that pointer-up's own position,
\* whether or not a pointer-move came to that position before.
C17_RayThroughReleasePoint ==
    (Clicked /\ camera # Null)
        => out.click.ray =
               ToNdc([clientX |-> out.pos[1], clientY |-> out.pos[2]])

\* C18: a pointer-up received while no drag is in progress never invokes
\* processClick, however close it is to a down position recorded earlier.
C18_ClickOnlyEndsDrag ==
    [][(out'.op = "mouseup" /\ ~inp.isDragging)
        => out'.nProcessClick = 0]_vars

\* C19: while a drag begun by an accepted pointer-down goes on with the gates
\* untouched, after each pointer-move the angle target differs from the one
\* the pointer-down found by rotateSpeed * (x of this move - x of the down),
\* however the way was split into moves; a pointer-move received while not
\* dragging, disabled or locked changes no target.
C19_AngleFollowsPointer ==
    [][out'.op = "mousemove"
        => /\ (/\ gesture.accepted /\ ~gesture.gatesChanged
               /\ inp.isDragging /\ inp.enabled /\ ~inp.locked)
                 => inp'.targetAngle - gesture.angle0
                        = RotateSpeed * (out'.pos[1] - gesture.down[1])
           /\ (~inp.isDragging \/ ~inp.enabled \/ inp.locked)
                 => /\ Targets(inp') = Targets(inp)
                    /\ inp'.targetLook = inp.targetLook]_vars

\* A second drag, which found the angle target 2 px' worth above the initial
\* one, is 2 px right of its down position after a pointer-move.
C19_Witness ==
    /\ out.op = "mousemove" /\ out.pos[1] = 102
    /\ gesture.accepted /\ ~gesture.gatesChanged /\ inp.isDragging
    /\ gesture.angle0 = InitAngle + 2 * RotateSpeed
    /\ inp.targetAngle = InitAngle + 4 * RotateSpeed

\* C20: in every reachable state currentRadius is within [minRadius,
\* maxRadius] and currentHeight within [minHeight, maxHeight], whatever
\* updates and target changes came before.
C20_CurrentsInRange ==
    /\ MinRadius <= inp.currentRadius /\ inp.currentRadius <= MaxRadius
    /\ MinHeight <= inp.currentHeight /\ inp.currentHeight <= MaxHeight

\* All the updates allowed have run, the radius on its way to its lower and
\* the height on its way to its upper limit.
C20_Witness ==
    /\ out.op = "update" /\ camera # Null /\ nUpdates = MaxUpdates
    /\ inp.targetRadius = MinRadius
    /\ inp.currentRadius \notin {InitRadius, MinRadius}
    /\ inp.targetHeight = MaxHeight
    /\ inp.currentHeight \notin {InitHeight, MaxHeight}

GatesOpenWhileDragging(s) == s.isDragging => (s.enabled /\ ~s.locked)

\* C21: in every reachable state a drag in progress implies open gates:
\* isDragging = true implies enabled = true and locked = false, after any
\* pointer events, wheel events, setEnabled and setLocked calls; an update()
\* taken in any reachable state, camera present or not, keeps it so.
C21_DraggingImpliesGatesOpen ==
    /\ GatesOpenWhileDragging(inp)
    /\ \A ms \in ElapsedMs : \A cam \in {Null, Camera} :
           GatesOpenWhileDragging(Update(inp, cam, ms))

\* setEnabled(true) has just been called during a drag that an accepted
\* pointer-down began: the drag goes on, the gates are open.
C21_Witness ==
    /\ out.op = "setEnabled(true)" /\ inp.isDragging
    /\ gesture.accepted /\ ~gesture.cancelled
    /\ inp.enabled /\ ~inp.locked

====
